---- MODULE Spec2Model ----
(***************************************************************************)
(* Model of pivotal_tools/pivotal.py: the transport functions, the field   *)
(* parsers, Story / Project construction, the query and mutation methods   *)
(* and the cross-project lookup helpers.                                   *)
(*                                                                         *)
(* A call is one atomic action.  The answers the remote service gives to   *)
(* the requests of that call are an input of the action: resps[i] is the   *)
(* response to the i-th request the call makes, if it gets that far.       *)
(* Python values that may be None are options: None or Some(v).            *)
(***************************************************************************)
EXTENDS Integers, Sequences, FiniteSets, TLC

\* ------------------------------------------------------------------ bounds
\* largest number of projects the remote service lists
MaxProjects == 2
\* largest number of stories a filtered search returns
MaxStories == 2

\* ----------------------------------------------------------- Python values
None == [some |-> FALSE]
Some(v) == [some |-> TRUE, v |-> v]

\* the sentinel the code compares estimates with
Unestimated == -1

\* outcomes of a call: a returned value or a raised exception
Return(v) == [kind |-> "return", value |-> v]
Raise(exc) == [kind |-> exc]
HTTPError(response) == [kind |-> "HTTPError", response |-> response]

\* node.get(key) on a deserialized JSON object (a function on its keys)
get(node, key) == IF key \in DOMAIN node THEN Some(node[key]) ELSE None

\* json.dumps / response.json(): a JSON text is the document wrapped; the
\* document null is None, any other document d is Some(d)
json_dumps(payload) == [json |-> Some(payload)]
json_loads(text) == text.json

\* a JSON array document, and the Python list it parses to
array(elements) == [items |-> elements]
items(document) == document.items

\* int() on a JSON integer
int(x) == x

\* str.strip() on the texts the model uses
strip(s) == CASE s = " accepted " -> "accepted"
              [] s = " web " -> "web"
              [] s = "feature " -> "feature"
              [] OTHER -> s

\* urllib.quote(s, safe='') on the filter strings the presets use
quote(s) ==
  CASE s = "type:feature state:unstarted" -> "type%3Afeature%20state%3Aunstarted"
    [] s = "type:bug state:unstarted" -> "type%3Abug%20state%3Aunstarted"
    [] s = "state:started,rejected" -> "state%3Astarted%2Crejected"
    [] s = "state:delivered,finished type:feature"
         -> "state%3Adelivered%2Cfinished%20type%3Afeature"
    [] s = "state:delivered,finished type:bug"
         -> "state%3Adelivered%2Cfinished%20type%3Abug"
    [] s = "state:unscheduled,unstarted,started,rejected type:bug"
         -> "state%3Aunscheduled%2Cunstarted%2Cstarted%2Crejected%20type%3Abug"

\* ------------------------------------------------------------ field parsers
_parse_text(node, key) ==
  LET element == get(node, key)
  IN IF element.some THEN strip(element.v) ELSE ""

_parse_int(node, key) ==
  LET element == get(node, key)
  IN IF element.some THEN Some(int(element.v)) ELSE None

_parse_array(node, key) ==
  LET element == get(node, key)
  IN IF element.some THEN Some(element.v) ELSE None

\* bool() on a JSON true / false
bool(x) == x = TRUE

_parse_boolean(node, key) ==
  LET element == get(node, key)
  IN IF element.some THEN Some(bool(element.v)) ELSE None

\* ------------------------------------------------------------- entity model
Note(note_id, text, author) ==
  [note_id |-> note_id, text |-> text, author |-> author]

Task(task_id, description, complete) ==
  [task_id |-> task_id, description |-> description, complete |-> complete]

Attachment(attachment_id, description, url) ==
  [attachment_id |-> attachment_id, description |-> description, url |-> url]

\* the child nodes under key, in order; no node when the key is absent
children(node, key) ==
  LET nodes == get(node, key) IN IF nodes.some THEN nodes.v ELSE <<>>

Story_from_json(node) ==
  [story_id |-> _parse_int(node, "id"),
   name |-> _parse_text(node, "name"),
   story_type |-> _parse_text(node, "story_type"),
   state |-> _parse_text(node, "current_state"),
   estimate |-> _parse_int(node, "estimate"),
   labels |-> _parse_array(node, "labels"),
   project_id |-> _parse_int(node, "project_id"),
   notes |-> [i \in DOMAIN children(node, "notes") |->
                LET n == children(node, "notes")[i]
                IN Note(_parse_int(n, "id"), _parse_text(n, "text"),
                        _parse_text(n, "author"))],
   attachments |-> [i \in DOMAIN children(node, "attachments") |->
                LET n == children(node, "attachments")[i]
                IN Attachment(_parse_int(n, "id"), _parse_text(n, "text"),
                              _parse_text(n, "url"))],
   tasks |-> [i \in DOMAIN children(node, "tasks") |->
                LET n == children(node, "tasks")[i]
                IN Task(_parse_int(n, "id"), _parse_text(n, "description"),
                        _parse_boolean(n, "complete"))]]

Project_from_json(project_node) ==
  [project_id |-> _parse_int(project_node, "id"),
   name |-> _parse_text(project_node, "name"),
   point_scale |-> _parse_array(project_node, "point_scale")]

\* ---------------------------------------------------------------- transport
Request(method, url, data) == [method |-> method, url |-> url, data |-> data]

\* mutant: every status outside 2xx raises
raise_for_status_non2xx(response) ==
  ~(response.status >= 200 /\ response.status < 300)

\* requests' Response.raise_for_status: raises for 400 <= status < 600
raise_for_status(response) == response.status >= 400 /\ response.status < 600

\* the answers left after the first n requests
drop(resps, n) == SubSeq(resps, n + 1, Len(resps))

_perform_pivotal_get(url, resps) ==
  LET response == Head(resps)
  IN [log |-> <<Request("GET", url, None)>>,
      out |-> IF raise_for_status(response) THEN HTTPError(response)
              ELSE Return(json_loads(response.text))]

_perform_pivotal_put(url, payload, resps) ==
  LET response == Head(resps)
  IN [log |-> <<Request("PUT", url, Some(json_dumps(payload)))>>,
      out |-> IF raise_for_status(response) THEN HTTPError(response)
              ELSE Return(json_loads(response.text))]

_perform_pivotal_post(url, payload, resps) ==
  LET response == Head(resps)
  IN [log |-> <<Request("POST", url, Some(json_dumps(payload)))>>,
      out |-> IF raise_for_status(response) THEN HTTPError(response)
              ELSE Return(json_loads(response.text))]

\* ---------------------------------------------------------------------- URLs
\* https://www.pivotaltracker.com/services/v5/projects
projects_url ==
  [path |-> "projects", project_id |-> None, story_id |-> None, filter |-> None]

\* .../projects/{}/stories/{}
story_url(project_id, story_id) ==
  [path |-> "projects/{}/stories/{}", project_id |-> project_id,
   story_id |-> story_id, filter |-> None]

\* .../projects/{}/stories?filter={}
stories_filter_url(project_id, story_filter) ==
  [path |-> "projects/{}/stories?filter={}", project_id |-> project_id,
   story_id |-> None, filter |-> Some(story_filter)]

\* .../projects/{}/stories
stories_url(project_id) ==
  [path |-> "projects/{}/stories", project_id |-> project_id,
   story_id |-> None, filter |-> None]

\* ------------------------------------------------------------ Story methods
\* a Story method yields its outcome, the requests it issued and the Story
\* object as the call leaves it
\* mutant: a successful update writes the payload into the Story object
update_refresh(self, payload, resps) ==
  LET r == _perform_pivotal_put(story_url(self.project_id, self.story_id),
                                payload, resps)
  IN [log |-> r.log, out |-> r.out,
      self |-> IF r.out.kind # "return" THEN self
               ELSE IF "estimate" \in DOMAIN payload
                    THEN [self EXCEPT !.estimate = Some(payload.estimate)]
                    ELSE [self EXCEPT !.state = payload.current_state]]

update(self, payload, resps) ==
  LET r == _perform_pivotal_put(story_url(self.project_id, self.story_id),
                                payload, resps)
  IN [log |-> r.log, out |-> r.out, self |-> self]

assign_estimate(self, estimate, resps) ==
  update(self, [estimate |-> estimate], resps)

set_state(self, state, resps) ==
  update(self, [current_state |-> state], resps)

\* a method that calls set_state and has no return statement
discard(r) ==
  [r EXCEPT !.out = IF r.out.kind = "return" THEN Return(None) ELSE r.out]

\* self.estimate == -1
is_unestimated(self) == self.estimate.some /\ self.estimate.v = Unestimated

finish(self, resps) ==
  IF is_unestimated(self)
  THEN [log |-> <<>>, out |-> Raise("InvalidStateException"), self |-> self]
  ELSE discard(set_state(self, "finished", resps))

\* mutant: start without the estimate check
start_unchecked(self, resps) == discard(set_state(self, "started", resps))

start(self, resps) ==
  IF is_unestimated(self)
  THEN [log |-> <<>>, out |-> Raise("InvalidStateException"), self |-> self]
  ELSE discard(set_state(self, "started", resps))

\* mutant: deliver sets the state of finish
deliver_finished(self, resps) ==
  IF is_unestimated(self)
  THEN [log |-> <<>>, out |-> Raise("InvalidStateException"), self |-> self]
  ELSE discard(set_state(self, "finished", resps))

deliver(self, resps) ==
  IF is_unestimated(self)
  THEN [log |-> <<>>, out |-> Raise("InvalidStateException"), self |-> self]
  ELSE discard(set_state(self, "delivered", resps))

accept(self, resps) == discard(set_state(self, "accepted", resps))

reject(self, resps) == discard(set_state(self, "rejected", resps))

\* ---------------------------------------------------------- Project methods
Project_all(resps) ==
  LET r == _perform_pivotal_get(projects_url, resps)
  IN IF r.out.kind # "return" THEN r
     ELSE LET root == r.out.value
          IN [log |-> r.log,
              out |-> Return(IF root.some
                             THEN Some([i \in DOMAIN items(root.v) |->
                                          Project_from_json(items(root.v)[i])])
                             ELSE None)]

get_stories(self, filter_string, resps) ==
  LET story_filter == quote(filter_string)
      r == _perform_pivotal_get(
             stories_filter_url(self.project_id, story_filter), resps)
  IN IF r.out.kind # "return" THEN r
     ELSE LET response == items(r.out.value.v)
          IN [log |-> r.log,
              out |-> Return([i \in DOMAIN response |->
                                Story_from_json(response[i])])]

\* mutant: every HTTP error of the lookup becomes None
load_story_swallow(self, story_id, resps) ==
  LET r == _perform_pivotal_get(story_url(self.project_id, Some(story_id)),
                                resps)
  IN IF r.out.kind = "return"
     THEN [log |-> r.log, out |-> Return(Some(Story_from_json(r.out.value.v)))]
     ELSE [log |-> r.log, out |-> Return(None)]

load_story(self, story_id, resps) ==
  LET r == _perform_pivotal_get(story_url(self.project_id, Some(story_id)),
                                resps)
  IN IF r.out.kind = "return"
     THEN [log |-> r.log, out |-> Return(Some(Story_from_json(r.out.value.v)))]
     ELSE IF r.out.response.status = 404
          THEN [log |-> r.log, out |-> Return(None)]
          ELSE r

create_story(self, story_dict, resps) ==
  LET r == _perform_pivotal_post(stories_url(self.project_id), story_dict,
                                 resps)
  IN [log |-> r.log,
      out |-> IF r.out.kind = "return" THEN Return(None) ELSE r.out]

open_bugs(self, resps) == get_stories(self, "type:bug state:unstarted", resps)

\* [story for story in stories if int(story.estimate) == -1]; int(None)
\* raises TypeError
unestimated_only(stories) ==
  IF \E i \in DOMAIN stories : ~stories[i].estimate.some
  THEN Raise("TypeError")
  ELSE Return(SelectSeq(stories,
                        LAMBDA story : int(story.estimate.v) = Unestimated))

\* mutant: the features are filtered before the open-bugs search is issued
unestimated_stories_filter_first(self, resps) ==
  LET f == get_stories(self, "type:feature state:unstarted", resps)
  IN IF f.out.kind # "return" THEN f
     ELSE LET u == unestimated_only(f.out.value)
              b == open_bugs(self, drop(resps, Len(f.log)))
          IN IF u.kind # "return" THEN [log |-> f.log, out |-> u]
             ELSE [log |-> f.log \o b.log,
                   out |-> IF b.out.kind # "return" THEN b.out
                           ELSE Return(b.out.value \o u.value)]

unestimated_stories(self, resps) ==
  LET f == get_stories(self, "type:feature state:unstarted", resps)
  IN IF f.out.kind # "return" THEN f
     ELSE LET b == open_bugs(self, drop(resps, Len(f.log)))
              u == unestimated_only(f.out.value)
          IN [log |-> f.log \o b.log,
              out |-> IF b.out.kind # "return" THEN b.out
                      ELSE IF u.kind # "return" THEN u
                      ELSE Return(b.out.value \o u.value)]

in_progress_stories(self, resps) ==
  get_stories(self, "state:started,rejected", resps)

finished_features(self, resps) ==
  get_stories(self, "state:delivered,finished type:feature", resps)

finished_bugs(self, resps) ==
  get_stories(self, "state:delivered,finished type:bug", resps)

known_issues(self, resps) ==
  get_stories(self, "state:unscheduled,unstarted,started,rejected type:bug",
              resps)

\* ----------------------------------------------------------- lookup helpers
\* mutant: the loop goes on after a hit and returns the first hit at the end
RECURSIVE scan_projects_exhaustive(_, _, _, _)
scan_projects_exhaustive(projects, i, story_id, resps) ==
  IF i > Len(projects) THEN [log |-> <<>>, out |-> Return(None)]
  ELSE LET r == load_story(projects[i], story_id, resps)
           rest == scan_projects_exhaustive(projects, i + 1, story_id,
                                            drop(resps, Len(r.log)))
       IN IF r.out.kind # "return" THEN r
          ELSE [log |-> r.log \o rest.log,
                out |-> IF r.out.value.some /\ rest.out.kind = "return"
                        THEN Return(Some(projects[i])) ELSE rest.out]

\* mutant: a project whose lookup fails is skipped
RECURSIVE scan_projects_skip_errors(_, _, _, _)
scan_projects_skip_errors(projects, i, story_id, resps) ==
  IF i > Len(projects) THEN [log |-> <<>>, out |-> Return(None)]
  ELSE LET r == load_story(projects[i], story_id, resps)
       IN IF r.out.kind = "return" /\ r.out.value.some
          THEN [log |-> r.log, out |-> Return(Some(projects[i]))]
          ELSE LET rest == scan_projects_skip_errors(projects, i + 1, story_id,
                                                     drop(resps, Len(r.log)))
               IN [log |-> r.log \o rest.log, out |-> rest.out]

\* the for loop of find_project_for_story from the i-th project on
RECURSIVE scan_projects(_, _, _, _)
scan_projects(projects, i, story_id, resps) ==
  IF i > Len(projects) THEN [log |-> <<>>, out |-> Return(None)]
  ELSE LET r == load_story(projects[i], story_id, resps)
       IN IF r.out.kind # "return" THEN r
          ELSE IF r.out.value.some
               THEN [log |-> r.log, out |-> Return(Some(projects[i]))]
               ELSE LET rest == scan_projects(projects, i + 1, story_id,
                                              drop(resps, Len(r.log)))
                    IN [log |-> r.log \o rest.log, out |-> rest.out]

find_project_for_story(story_id, resps) ==
  LET all == Project_all(resps)
  IN IF all.out.kind # "return" THEN all
     ELSE IF ~all.out.value.some
          THEN [log |-> all.log, out |-> Raise("TypeError")]
          ELSE LET rest == scan_projects(all.out.value.v, 1, story_id,
                                         drop(resps, Len(all.log)))
               IN [log |-> all.log \o rest.log, out |-> rest.out]

\* Project.all()[project_index] for an index >= 0
project_at(resps, project_index) ==
  LET all == Project_all(resps)
  IN IF all.out.kind # "return" THEN all
     ELSE IF ~all.out.value.some
          THEN [log |-> all.log, out |-> Raise("TypeError")]
          ELSE IF project_index >= Len(all.out.value.v)
               THEN [log |-> all.log, out |-> Raise("IndexError")]
               ELSE [log |-> all.log,
                     out |-> Return(Some(all.out.value.v[project_index + 1]))]

\* mutant: the project found is returned without loading the story
Story_find_noload(story_id, project_index, resps) ==
  IF ~project_index.some
  THEN find_project_for_story(story_id, resps)
  ELSE project_at(resps, project_index.v)

Story_find(story_id, project_index, resps) ==
  LET p == IF ~project_index.some
           THEN find_project_for_story(story_id, resps)
           ELSE project_at(resps, project_index.v)
  IN IF p.out.kind # "return" THEN p
     ELSE IF p.out.value.some
          THEN LET r == load_story(p.out.value.v, story_id,
                                   drop(resps, Len(p.log)))
               IN [log |-> p.log \o r.log, out |-> r.out]
          ELSE [log |-> p.log, out |-> Return(None)]

\* ------------------------------------------------------------------- inputs
\* status codes the remote service answers with: one per class, and 404
Statuses == {101, 200, 304, 404, 500}

\* ids of the remote service's projects
ProjectIds == 1..MaxProjects

\* story ids a caller asks for
StoryIds == {41, 42}

\* estimates of the remote stories: a point value or the sentinel; a story
\* node may also have no estimate key
Estimates == {Unestimated, 3}

ProjectNode(id) == [id |-> id, name |-> " web ", point_scale |-> <<0, 1, 2, 3>>]

\* a story node of the remote service; e is the estimate or None
StoryNode(id, project_id, story_type, current_state, e) ==
  LET node == [id |-> id, project_id |-> project_id, name |-> "story",
               story_type |-> story_type, current_state |-> current_state,
               labels |-> <<"ui">>]
  IN IF e.some THEN [estimate |-> e.v] @@ node ELSE node

\* the same node with one note, one attachment and one task
WithChildren(node) ==
  [notes |-> <<[id |-> 7, text |-> "note", author |-> "ann"]>>,
   attachments |-> <<[id |-> 8, text |-> "shot", url |-> "u"]>>,
   tasks |-> <<[id |-> 9, description |-> "task", complete |-> FALSE]>>] @@ node

OptionalEstimates == {None} \cup {Some(e) : e \in Estimates}

\* the Story objects a caller holds: built by from_json from a story node
HeldStories ==
  { Story_from_json(StoryNode(41, 1, "feature ", st, e)) :
      st \in {"unstarted", " accepted "}, e \in OptionalEstimates }
  \cup
  { Story_from_json(WithChildren(StoryNode(42, 2, "bug", st, e))) :
      st \in {"started"}, e \in OptionalEstimates }

\* the Project objects a caller holds
HeldProjects == { Project_from_json(ProjectNode(id)) : id \in ProjectIds }

\* sequences over S of length n, and of length at most n
SeqsOfLen(S, n) == [1..n -> S]
SeqsUpTo(S, n) == UNION { SeqsOfLen(S, k) : k \in 0..n }

Response(status, document) == [status |-> status, text |-> json_dumps(document)]

\* a response with the document null
NullResponse(status) == [status |-> status, text |-> [json |-> None]]

\* responses with an error status carry an error document
ErrorResponses ==
  { Response(st, [error |-> "failed"]) : st \in {x \in Statuses : x >= 400} }

\* responses carrying one of the documents, under a status below 400
DocumentResponses(documents) ==
  { Response(st, d) : st \in {x \in Statuses : x < 400}, d \in documents }

\* answers to GET .../projects: the projects in some order, or null
ProjectLists ==
  { l \in SeqsUpTo(ProjectIds, MaxProjects) :
      \A i, j \in DOMAIN l : i # j => l[i] # l[j] }
ProjectsResponses ==
  DocumentResponses({ array([i \in DOMAIN l |-> ProjectNode(l[i])]) :
                        l \in ProjectLists })
  \cup {NullResponse(200)} \cup ErrorResponses

\* answers to GET .../projects/{}/stories/{}
StoryResponses(project_id, story_id, estimates) ==
  DocumentResponses({ StoryNode(story_id, project_id, "feature", "started", e) :
                        e \in estimates })
  \cup ErrorResponses

\* answers to GET .../projects/{}/stories?filter={}: stories 1..n of the
\* given type and state
StoriesResponses(project_id, story_type, current_state, estimates) ==
  DocumentResponses(
    { array([i \in DOMAIN l |->
               StoryNode(i, project_id, story_type, current_state, l[i])]) :
        l \in SeqsUpTo(estimates, MaxStories) })
  \cup ErrorResponses

\* answers to a PUT or POST: the story as the service has it
AckResponses ==
  DocumentResponses({ StoryNode(41, 1, "feature", "started", Some(3)) })
  \cup ErrorResponses

\* the project nodes a response to GET .../projects lists
listed(response) ==
  IF response.status < 400 /\ response.text.json.some
  THEN items(response.text.json.v) ELSE <<>>

\* ------------------------------------------------------------ state machine
VARIABLES
  op,     \* the operation of the call that has ended, "idle" before a call
  args,   \* its arguments (self: the object it was called on)
  resps,  \* the answers of the remote service to its requests, in order
  log,    \* the requests it issued, in order
  out,    \* its outcome: the value returned or the exception raised
  story   \* the Story object it was called on, as the call left it

vars == <<op, args, resps, log, out, story>>

NoArgs == [none |-> TRUE]

Init ==
  /\ op = "idle"
  /\ args = NoArgs
  /\ resps = <<>>
  /\ log = <<>>
  /\ out = Return(None)
  /\ story = None

\* a call of a Story method
StoryCall(name, a, rs, r) ==
  /\ op' = name
  /\ args' = a
  /\ resps' = rs
  /\ log' = r.log
  /\ out' = r.out
  /\ story' = Some(r.self)

\* a call of a Project method or of a helper
Call(name, a, rs, r) ==
  /\ op' = name
  /\ args' = a
  /\ resps' = rs
  /\ log' = r.log
  /\ out' = r.out
  /\ story' = None

\* the caller has the outcome; the next call starts afresh
Done ==
  /\ op # "idle"
  /\ op' = "idle"
  /\ args' = NoArgs
  /\ resps' = <<>>
  /\ log' = <<>>
  /\ out' = Return(None)
  /\ story' = None

Update ==
  /\ op = "idle"
  /\ \E self \in HeldStories, payload \in {[estimate |-> 2], [current_state |-> "started"]},
     rs \in SeqsOfLen(AckResponses, 1) :
    StoryCall("update", [self |-> self, payload |-> payload], rs,
              update(self, payload, rs))

AssignEstimate ==
  /\ op = "idle"
  /\ \E self \in HeldStories, estimate \in {1, 3}, rs \in SeqsOfLen(AckResponses, 1) :
    StoryCall("assign_estimate", [self |-> self, estimate |-> estimate], rs,
              assign_estimate(self, estimate, rs))

SetState ==
  /\ op = "idle"
  /\ \E self \in HeldStories, state \in {"started", "accepted"},
     rs \in SeqsOfLen(AckResponses, 1) :
    StoryCall("set_state", [self |-> self, state |-> state], rs,
              set_state(self, state, rs))

Finish ==
  /\ op = "idle"
  /\ \E self \in HeldStories, rs \in SeqsOfLen(AckResponses, 1) :
    StoryCall("finish", [self |-> self], rs, finish(self, rs))

Start ==
  /\ op = "idle"
  /\ \E self \in HeldStories, rs \in SeqsOfLen(AckResponses, 1) :
    StoryCall("start", [self |-> self], rs, start(self, rs))

Deliver ==
  /\ op = "idle"
  /\ \E self \in HeldStories, rs \in SeqsOfLen(AckResponses, 1) :
    StoryCall("deliver", [self |-> self], rs, deliver(self, rs))

Accept ==
  /\ op = "idle"
  /\ \E self \in HeldStories, rs \in SeqsOfLen(AckResponses, 1) :
    StoryCall("accept", [self |-> self], rs, accept(self, rs))

Reject ==
  /\ op = "idle"
  /\ \E self \in HeldStories, rs \in SeqsOfLen(AckResponses, 1) :
    StoryCall("reject", [self |-> self], rs, reject(self, rs))

ProjectAll ==
  /\ op = "idle"
  /\ \E rs \in SeqsOfLen(ProjectsResponses, 1) :
    Call("Project.all", NoArgs, rs, Project_all(rs))

GetStories ==
  /\ op = "idle"
  /\ \E self \in HeldProjects : \E rs \in SeqsOfLen(
         StoriesResponses(self.project_id.v, "bug", "started", {None}), 1) :
    Call("get_stories", [self |-> self, filter_string |-> "state:started,rejected"],
         rs, get_stories(self, "state:started,rejected", rs))

LoadStory ==
  /\ op = "idle"
  /\ \E self \in HeldProjects, story_id \in StoryIds :
    \E rs \in SeqsOfLen(StoryResponses(self.project_id.v, story_id,
                                       OptionalEstimates), 1) :
      Call("load_story", [self |-> self, story_id |-> story_id], rs,
           load_story(self, story_id, rs))

CreateStory ==
  /\ op = "idle"
  /\ \E self \in HeldProjects, rs \in SeqsOfLen(AckResponses, 1) :
    Call("create_story", [self |-> self, story_dict |-> [name |-> "new"]], rs,
         create_story(self, [name |-> "new"], rs))

UnestimatedStories ==
  /\ op = "idle"
  /\ \E self \in HeldProjects :
    \E f \in StoriesResponses(self.project_id.v, "feature", "unstarted",
                              OptionalEstimates),
       b \in StoriesResponses(self.project_id.v, "bug", "unstarted",
                              {None, Some(Unestimated)}) :
      Call("unestimated_stories", [self |-> self], <<f, b>>,
           unestimated_stories(self, <<f, b>>))

OpenBugs ==
  /\ op = "idle"
  /\ \E self \in HeldProjects : \E rs \in SeqsOfLen(
         StoriesResponses(self.project_id.v, "bug", "unstarted", {None}), 1) :
    Call("open_bugs", [self |-> self], rs, open_bugs(self, rs))

InProgressStories ==
  /\ op = "idle"
  /\ \E self \in HeldProjects : \E rs \in SeqsOfLen(
         StoriesResponses(self.project_id.v, "feature", "started", {Some(3)}), 1) :
    Call("in_progress_stories", [self |-> self], rs,
         in_progress_stories(self, rs))

FinishedFeatures ==
  /\ op = "idle"
  /\ \E self \in HeldProjects : \E rs \in SeqsOfLen(
         StoriesResponses(self.project_id.v, "feature", "finished", {Some(3)}), 1) :
    Call("finished_features", [self |-> self], rs, finished_features(self, rs))

FinishedBugs ==
  /\ op = "idle"
  /\ \E self \in HeldProjects : \E rs \in SeqsOfLen(
         StoriesResponses(self.project_id.v, "bug", "delivered", {None}), 1) :
    Call("finished_bugs", [self |-> self], rs, finished_bugs(self, rs))

KnownIssues ==
  /\ op = "idle"
  /\ \E self \in HeldProjects : \E rs \in SeqsOfLen(
         StoriesResponses(self.project_id.v, "bug", "rejected", {None}), 1) :
    Call("known_issues", [self |-> self], rs, known_issues(self, rs))

\* the answers to the lookups of story_id in the projects a response lists
LookupAnswers(projects, story_id) ==
  { l \in SeqsOfLen(UNION { StoryResponses(p.id, story_id, {Some(3)}) :
                              p \in { projects[i] : i \in DOMAIN projects } },
                    Len(projects)) :
      \A i \in DOMAIN l :
        l[i] \in StoryResponses(projects[i].id, story_id, {Some(3)}) }

FindProjectForStory ==
  /\ op = "idle"
  /\ \E story_id \in StoryIds, all \in ProjectsResponses :
    \E lookups \in LookupAnswers(listed(all), story_id) :
      Call("find_project_for_story", [story_id |-> story_id],
           <<all>> \o lookups,
           find_project_for_story(story_id, <<all>> \o lookups))

\* the answers to the last load of Story.find: of any listed project
LastAnswers(projects, story_id) ==
  UNION { StoryResponses(p.id, story_id, {Some(3)}) :
            p \in { projects[i] : i \in DOMAIN projects } }
  \cup ErrorResponses

StoryFind ==
  /\ op = "idle"
  /\ \E story_id \in StoryIds, all \in ProjectsResponses :
    \E lookups \in LookupAnswers(listed(all), story_id),
       last \in LastAnswers(listed(all), story_id) :
      Call("Story.find", [story_id |-> story_id, project_index |-> None],
           <<all>> \o lookups \o <<last>>,
           Story_find(story_id, None, <<all>> \o lookups \o <<last>>))

StoryFindAt ==
  /\ op = "idle"
  /\ \E story_id \in StoryIds, project_index \in 0..MaxProjects,
     all \in ProjectsResponses :
    \E last \in LastAnswers(listed(all), story_id) :
      Call("Story.find", [story_id |-> story_id,
                          project_index |-> Some(project_index)],
           <<all, last>>,
           Story_find(story_id, Some(project_index), <<all, last>>))

PerformGet ==
  /\ op = "idle"
  /\ \E rs \in SeqsOfLen(ProjectsResponses, 1) :
       Call("_perform_pivotal_get", [url |-> projects_url], rs,
            _perform_pivotal_get(projects_url, rs))

PerformPut ==
  /\ op = "idle"
  /\ \E rs \in SeqsOfLen(AckResponses, 1), payload \in {[estimate |-> 3]} :
       Call("_perform_pivotal_put",
            [url |-> story_url(Some(1), Some(41)), payload |-> payload], rs,
            _perform_pivotal_put(story_url(Some(1), Some(41)), payload, rs))

PerformPost ==
  /\ op = "idle"
  /\ \E rs \in SeqsOfLen(AckResponses, 1), payload \in {[name |-> "new"]} :
       Call("_perform_pivotal_post",
            [url |-> stories_url(Some(1)), payload |-> payload], rs,
            _perform_pivotal_post(stories_url(Some(1)), payload, rs))

Next ==
  \/ PerformGet \/ PerformPut \/ PerformPost
  \/ Update \/ AssignEstimate \/ SetState
  \/ Finish \/ Start \/ Deliver \/ Accept \/ Reject
  \/ ProjectAll \/ GetStories \/ LoadStory \/ CreateStory
  \/ UnestimatedStories \/ OpenBugs \/ InProgressStories
  \/ FinishedFeatures \/ FinishedBugs \/ KnownIssues
  \/ FindProjectForStory \/ StoryFind \/ StoryFindAt
  \/ Done

Spec == Init /\ [][Next]_vars

\* =================================================================== claims
\* helpers of the claims
Is2xx(response) == response.status >= 200 /\ response.status < 300
IsError(response) == response.status >= 400

\* the Project objects the first response of a call lists
ListedProjects == [i \in DOMAIN listed(resps[1]) |->
                     Project_from_json(listed(resps[1])[i])]

\* the first request of a call got a project list
ListingReturned == resps[1].status < 400 /\ resps[1].text.json.some

\* the GET of story_id in project
LookupRequest(project, story_id) ==
  Request("GET", story_url(project.project_id, Some(story_id)), None)

\* --- C1 -------------------------------------------------------------------
\* C1: start(), finish() and deliver() on a Story whose estimate is -1, in
\* whatever state, fail with InvalidStateException, issue no HTTP request and
\* leave every field of the Story unchanged.
C1_UnestimatedRefused ==
  (op \in {"start", "finish", "deliver"} /\ is_unestimated(args.self))
    => /\ out = Raise("InvalidStateException")
       /\ log = <<>>
       /\ story = Some(args.self)

C1_Witness ==
  /\ op = "deliver"
  /\ is_unestimated(args.self)
  /\ args.self.state = "accepted"
  /\ out.kind = "InvalidStateException"

\* --- C2 -------------------------------------------------------------------
\* C2 as stated: load_story returns None exactly when the answer is 404,
\* returns a Story built from the body for a 2xx answer, and lets the
\* transport error propagate for every other non-2xx status.
C2_Original ==
  op = "load_story"
    => /\ (out = Return(None)) <=> (resps[1].status = 404)
       /\ Is2xx(resps[1])
            => out = Return(Some(Story_from_json(json_loads(resps[1].text).v)))
       /\ (~Is2xx(resps[1]) /\ resps[1].status # 404)
            => out = HTTPError(resps[1])

\* C2 amended: load_story returns None exactly when the answer is 404; for
\* every answer with a status below 400 (2xx, and 1xx / 3xx as well) it
\* returns a Story built from the body; for every status from 400 on other
\* than 404 the HTTP error propagates.
C2_LoadStory ==
  op = "load_story"
    => /\ (out = Return(None)) <=> (resps[1].status = 404)
       /\ ~IsError(resps[1])
            => out = Return(Some(Story_from_json(json_loads(resps[1].text).v)))
       /\ (IsError(resps[1]) /\ resps[1].status # 404)
            => out = HTTPError(resps[1])
       /\ log = <<LookupRequest(args.self, args.story_id)>>

C2_Witness ==
  /\ op = "load_story"
  /\ resps[1].status = 304
  /\ out.kind = "return"
  /\ out.value.some
  /\ out.value.v.story_id = Some(args.story_id)

\* --- C3 -------------------------------------------------------------------
\* C3: find_project_for_story scans the projects in the order Project.all()
\* returns them.  When the k-th project is the first whose lookup yields a
\* Story and all earlier ones answer 404, it returns that project after
\* exactly k lookups, one per project scanned in order; when every project
\* answers 404 it returns None after exactly one lookup per project.
C3_FirstHit ==
  (op = "find_project_for_story" /\ ListingReturned)
    => LET projects == ListedProjects
           n == Len(projects)
           lookups == drop(log, 1)
       IN /\ \A k \in 1..n :
               ( /\ \A j \in 1..(k - 1) : resps[1 + j].status = 404
                 /\ ~IsError(resps[1 + k]) )
               => /\ out = Return(Some(projects[k]))
                  /\ Len(lookups) = k
                  /\ \A j \in 1..k :
                       lookups[j] = LookupRequest(projects[j], args.story_id)
          /\ (\A j \in 1..n : resps[1 + j].status = 404)
               => /\ out = Return(None)
                  /\ Len(lookups) = n
                  /\ \A j \in 1..n :
                       lookups[j] = LookupRequest(projects[j], args.story_id)

\* the scenario of the specification: [A (no story), B (has story)]
C3_Witness ==
  /\ op = "find_project_for_story"
  /\ ListingReturned
  /\ Len(ListedProjects) = 2
  /\ resps[2].status = 404
  /\ resps[3].status = 200
  /\ out = Return(Some(ListedProjects[2]))
  /\ Len(log) = 3

\* --- C4 -------------------------------------------------------------------
\* C4: when both searches are answered with 200, unestimated_stories returns
\* the stories of the open-bugs search, whatever their estimate, followed by
\* those stories of the unstarted-features search whose estimate is -1 (a
\* feature with a point value or without estimate is left out), each with the
\* id of its remote story.
C4_UnestimatedStories ==
  (op = "unestimated_stories" /\ resps[1].status = 200 /\ resps[2].status = 200)
    => LET features == items(json_loads(resps[1].text).v)
           bugs == items(json_loads(resps[2].text).v)
           kept == SelectSeq(features,
                             LAMBDA node : "estimate" \in DOMAIN node
                                           /\ node.estimate = -1)
           expected == bugs \o kept
       IN /\ out.kind = "return"
          /\ Len(out.value) = Len(expected)
          /\ \A i \in DOMAIN expected :
               /\ out.value[i] = Story_from_json(expected[i])
               /\ out.value[i].story_id = Some(expected[i].id)

\* --- C5 -------------------------------------------------------------------
\* C5 as stated: each transport operation performs exactly one request and
\* returns the parsed body for every 2xx status and fails with an HTTP error
\* carrying the response for every status outside 2xx.
C5_Original ==
  op \in {"_perform_pivotal_get", "_perform_pivotal_put", "_perform_pivotal_post"}
    => /\ Len(log) = 1
       /\ Is2xx(resps[1]) => out = Return(json_loads(resps[1].text))
       /\ ~Is2xx(resps[1]) => out = HTTPError(resps[1])

\* C5 amended: each transport operation performs exactly one request, of its
\* own method, and classifies the response by status code alone: a status
\* from 400 to 599 fails with an HTTP error carrying the response; every
\* other status (2xx, and 1xx and 3xx as well) returns the parsed JSON body.
C5_Transport ==
  op \in {"_perform_pivotal_get", "_perform_pivotal_put", "_perform_pivotal_post"}
    => /\ Len(log) = 1
       /\ log[1].url = args.url
       /\ log[1].method = CASE op = "_perform_pivotal_get" -> "GET"
                            [] op = "_perform_pivotal_put" -> "PUT"
                            [] op = "_perform_pivotal_post" -> "POST"
       /\ (resps[1].status >= 400 /\ resps[1].status < 600)
            => out = HTTPError(resps[1])
       /\ ~(resps[1].status >= 400 /\ resps[1].status < 600)
            => out = Return(json_loads(resps[1].text))

C5_Witness ==
  /\ op = "_perform_pivotal_get"
  /\ resps[1].status = 304
  /\ out = Return(json_loads(resps[1].text))
  /\ Len(log) = 1

\* --- C6 -------------------------------------------------------------------
StoryMethods == {"update", "assign_estimate", "set_state", "start", "finish",
                 "deliver", "accept", "reject"}

\* C6: update, and so assign_estimate, set_state, start, finish, deliver,
\* accept and reject, leave every field of the Story they are called on as it
\* was, whether the PUT succeeds or fails.
C6_StoryUnchanged ==
  op \in StoryMethods => story = Some(args.self)

\* a successful assign_estimate on an unestimated Story, and the estimate is
\* still -1
C6_Witness ==
  /\ op = "assign_estimate"
  /\ is_unestimated(args.self)
  /\ out.kind = "return"
  /\ Len(log) = 1
  /\ story.v.estimate.v = Unestimated

\* --- C7 -------------------------------------------------------------------
\* C7 as stated: Story.find with a project_index issues exactly one HTTP
\* call, and without one at most N + 1 calls for N accessible projects.
C7_Original ==
  op = "Story.find"
    => IF args.project_index.some
       THEN Len(log) = 1
       ELSE Len(log) <= Len(listed(resps[1])) + 1

\* C7 amended: Story.find with a project_index issues the project listing
\* and then, when the listing returns a list that has that index, the story
\* lookup in that project: two HTTP calls, and one when the listing fails or
\* has no such index.  Without a project_index it issues at most N + 2 calls:
\* the listing, at most N lookups of the scan, and the load of the story.
C7_FindCalls ==
  op = "Story.find"
    => IF args.project_index.some
       THEN /\ Len(log) \in {1, 2}
            /\ log[1] = Request("GET", projects_url, None)
            /\ (Len(log) = 2)
                 <=> (ListingReturned
                        /\ args.project_index.v < Len(ListedProjects))
            /\ Len(log) = 2
                 => log[2] = LookupRequest(
                                ListedProjects[args.project_index.v + 1],
                                args.story_id)
       ELSE /\ Len(log) >= 1
            /\ Len(log) <= Len(listed(resps[1])) + 2

\* the worst case without index: the last of N projects holds the story
C7_Witness ==
  /\ op = "Story.find"
  /\ ~args.project_index.some
  /\ Len(listed(resps[1])) = MaxProjects
  /\ Len(log) = MaxProjects + 2
  /\ out.kind = "return"
  /\ out.value.some

\* --- C8 -------------------------------------------------------------------
SingleRequestOps ==
  {"Project.all", "get_stories", "open_bugs", "in_progress_stories",
   "finished_features", "finished_bugs", "known_issues", "load_story",
   "create_story", "update", "assign_estimate", "set_state", "accept",
   "reject"}

\* C8 as stated: every invocation of a Project or Story query / mutation
\* operation, unestimated_stories included, issues exactly one HTTP request.
C8_Original ==
  op \in SingleRequestOps \cup {"unestimated_stories"} => Len(log) = 1

\* C8 amended: every invocation of Project.all, get_stories, open_bugs,
\* in_progress_stories, finished_features, finished_bugs, known_issues,
\* load_story, create_story, update, assign_estimate, set_state, accept and
\* reject issues exactly one HTTP request; unestimated_stories issues the
\* features search and then, unless that search raised, the open-bugs
\* search: two requests, or one.
C8_RequestCounts ==
  /\ op \in SingleRequestOps => Len(log) = 1
  /\ op = "unestimated_stories"
       => /\ Len(log) = IF IsError(resps[1]) THEN 1 ELSE 2
          /\ log[1].url.filter = Some(quote("type:feature state:unstarted"))
          /\ Len(log) = 2
               => log[2].url.filter = Some(quote("type:bug state:unstarted"))

\* unestimated_stories issued both searches although a feature has no
\* estimate
C8_Witness ==
  /\ op = "unestimated_stories"
  /\ Len(log) = 2
  /\ out.kind = "TypeError"

\* --- C9 -------------------------------------------------------------------
FindOps == {"find_project_for_story", "Story.find"}

\* the call is a scan over the listed projects
IsScan == op \in FindOps /\ (op = "Story.find" => ~args.project_index.some)

\* C9 as stated: in find_project_for_story and Story.find without index, a
\* failed listing, or a lookup answered with a non-2xx status other than 404
\* after 404 answers only, ends the call with that transport error and no
\* lookup in a later project.
C9_Original ==
  IsScan
    => /\ IsError(resps[1]) => (out = HTTPError(resps[1]) /\ Len(log) = 1)
       /\ ListingReturned
            => \A k \in 1..Len(ListedProjects) :
                 ( /\ \A j \in 1..(k - 1) : resps[1 + j].status = 404
                   /\ ~Is2xx(resps[1 + k])
                   /\ resps[1 + k].status # 404 )
                 => (out = HTTPError(resps[1 + k]) /\ Len(log) = 1 + k)

\* C9 amended: in find_project_for_story and Story.find without index, a
\* failed listing (status from 400 on), or a lookup answered with a status
\* from 400 on other than 404 after 404 answers only, ends the call with
\* that HTTP error, returns no project and issues no lookup in a later
\* project, whatever the later projects would answer.
C9_FailFast ==
  IsScan
    => /\ IsError(resps[1]) => (out = HTTPError(resps[1]) /\ Len(log) = 1)
       /\ ListingReturned
            => \A k \in 1..Len(ListedProjects) :
                 ( /\ \A j \in 1..(k - 1) : resps[1 + j].status = 404
                   /\ IsError(resps[1 + k])
                   /\ resps[1 + k].status # 404 )
                 => (out = HTTPError(resps[1 + k]) /\ Len(log) = 1 + k)

\* the first project answers 500 and the second one holds the story
C9_Witness ==
  /\ op = "find_project_for_story"
  /\ ListingReturned
  /\ Len(ListedProjects) = 2
  /\ resps[2].status = 500
  /\ resps[3].status = 200
  /\ out = HTTPError(resps[2])
  /\ Len(log) = 2

\* --- C10 ------------------------------------------------------------------
\* the state each transition method sets
TargetState ==
  [start |-> "started", finish |-> "finished", deliver |-> "delivered",
   accept |-> "accepted", reject |-> "rejected"]

\* C10: whatever the Story's current state, start, finish and deliver with
\* an estimate other than -1 (a point value or none) and accept and reject
\* with any estimate send exactly one PUT to the story's resource URL with
\* the body {"current_state": <target state>}.
C10_ThinStateSetter ==
  ( /\ op \in DOMAIN TargetState
    /\ (op \in {"accept", "reject"} \/ ~is_unestimated(args.self)) )
    => log = << Request("PUT",
                        story_url(args.self.project_id, args.self.story_id),
                        Some(json_dumps([current_state |-> TargetState[op]]))) >>

\* start() on an accepted Story without estimate
C10_Witness ==
  /\ op = "start"
  /\ args.self.state = "accepted"
  /\ ~args.self.estimate.some
  /\ Len(log) = 1
  /\ log[1].method = "PUT"

====
